---- MODULE Spec2Model ----
(***************************************************************************)
(* Harvest Hub backend: the auth, gardens, crops and profile routers over  *)
(* the users / gardens / crops tables of the relational store.             *)
(*                                                                         *)
(* A request occupies a slot.  A handler runs synchronously up to its      *)
(* first await; every later action is "the awaited store (or remote) call  *)
(* completes and the handler runs on to its next await or its response".   *)
(* Requests in different slots interleave at those points.                 *)
(***************************************************************************)
EXTENDS Integers, Sequences, FiniteSets, TLC

VARIABLES users, gardens, crops, seq, now, held, req, last, faults

vars == <<users, gardens, crops, seq, now, held, req, last, faults>>

(***************************************************************************)
(* Bounds of the model.                                                    *)
(***************************************************************************)
MaxUsers == 2
MaxGardens == 2
MaxCrops == 2
MaxReqs == 2
MaxNow == 8
MaxFaults == 1

\* expiresIn: '7d', in days
ExpiresInDays == 7

Slots == 1..MaxReqs

(***************************************************************************)
(* JavaScript values.  Strings stand for themselves; undefined and null    *)
(* are two reserved strings; booleans are "true" / "false"; numbers are    *)
(* integers with two reserved negatives for undefined and null.            *)
(***************************************************************************)
Undef == "undefined"
JsNull == "null"
UndefNum == 0 - 1
NullNum == 0 - 2

\* the absent object: data: null of a query, an unset local, no response
Null == [null |-> TRUE]

\* !v for a string or boolean value
Falsy(v) == v \in {Undef, JsNull, "", "false"}

\* !v for a number
FalsyNum(v) == v \in {UndefNum, NullNum, 0}

\* a || b
Or(a, b) == IF Falsy(a) THEN b ELSE a

OrNum(a, b) == IF FalsyNum(a) THEN b ELSE a

\* a !== undefined ? a : b
Supplied(a, b) == IF a # Undef THEN a ELSE b

SuppliedNum(a, b) == IF a # UndefNum THEN a ELSE b

\* const { f, ...rest } = row
Omit(row, f) == [k \in DOMAIN row \ {f} |-> row[k]]

\* .select('c1, c2, ...') on one row
Pick(row, cols) == [k \in cols |-> row[k]]

(***************************************************************************)
(* The store client.                                                       *)
(***************************************************************************)
\* a store call answers, or (while the fault budget lasts) fails
StoreOutcomes == IF faults > 0 THEN {TRUE, FALSE} ELSE {TRUE}

Spend(ok) == faults' = (IF ok THEN faults ELSE faults - 1)

\* .single(): exactly one row, or data null with an error
Single(rows, ok) ==
    IF ok /\ Cardinality(rows) = 1
    THEN [data |-> CHOOSE r \in rows : TRUE, error |-> FALSE]
    ELSE [data |-> Null, error |-> TRUE]

(***************************************************************************)
(* Password hashing and tokens.                                            *)
(***************************************************************************)
Salts == {1}

\* bcrypt.hash(password, salt)
Hash(password, salt) == [pw |-> password, salt |-> salt]

\* bcrypt.compare(password, hash)
Compare(password, hash) == hash.pw = password

\* jwt.sign({id, email, name}, secret, {expiresIn: '7d'})
Sign(user, t) ==
    [id |-> user.id, email |-> user.email, name |-> user.name,
     iat |-> t, exp |-> t + ExpiresInDays, sig |-> "good"]

\* a verify that still accepts the token in the instant it expires
VerifyLate(token, t) ==
    IF token.sig # "good" THEN [ok |-> FALSE, name |-> "JsonWebTokenError"]
    ELSE IF t > token.exp THEN [ok |-> FALSE, name |-> "TokenExpiredError"]
    ELSE [ok |-> TRUE, name |-> "none"]

\* jwt.verify(token, secret): the signature first, then the expiry
Verify(token, t) ==
    IF token.sig # "good" THEN [ok |-> FALSE, name |-> "JsonWebTokenError"]
    ELSE IF t >= token.exp THEN [ok |-> FALSE, name |-> "TokenExpiredError"]
    ELSE [ok |-> TRUE, name |-> "none"]

\* no token
NoToken == [id |-> 0, email |-> "", name |-> "", iat |-> 0, exp |-> 0, sig |-> "none"]

Decoded(token) == [id |-> token.id, email |-> token.email, name |-> token.name]

(***************************************************************************)
(* Request slots.                                                          *)
(***************************************************************************)
Idle == [pc |-> "idle", op |-> "none", user |-> Null, id |-> 0,
         body |-> Null, loc |-> Null]

\* the step sends no response
NoResponse == [slot |-> 0, op |-> "none", user |-> Null, id |-> 0, body |-> Null,
               loc |-> Null, res |-> Null]

InFlight(op) == Cardinality({s \in Slots : req[s].op = op})

\* the handler in slot s suspends at an await
Await(s, op, pc, user, id, body, loc) ==
    /\ req' = [req EXCEPT ![s] = [pc |-> pc, op |-> op, user |-> user, id |-> id,
                                  body |-> body, loc |-> loc]]
    /\ last' = NoResponse

\* res.status(...).json(...) in slot s: the handler has returned; last is the
\* response this step sends, with the request it answers and the locals it had
Respond(s, op, user, id, body, loc, res) ==
    /\ req' = [req EXCEPT ![s] = Idle]
    /\ last' = [slot |-> s, op |-> op, user |-> user, id |-> id, body |-> body,
                loc |-> loc, res |-> res]

\* a JSON error body
Err(status, error) == [status |-> status, error |-> error]

\* a day passes
Tick ==
    /\ now < MaxNow
    /\ now' = now + 1
    /\ last' = NoResponse
    /\ UNCHANGED <<users, gardens, crops, seq, held, req, faults>>

\* the client of slot s stores the token of the response it got
Keep(s, token) == [held EXCEPT ![s] = token]

(***************************************************************************)
(* routes/auth.js                                                          *)
(***************************************************************************)
Emails == {"", "a@x", "b@x"}
Passwords == {"", "pw1", "pw2"}

RegisterBodies ==
    {[email |-> "a@x", password |-> "pw1", name |-> "Ann", phone |-> Undef],
     [email |-> "b@x", password |-> "pw2", name |-> "Bob", phone |-> "555"],
     [email |-> "", password |-> "pw1", name |-> "Ann", phone |-> Undef],
     [email |-> "a@x", password |-> "", name |-> "Ann", phone |-> Undef],
     [email |-> "b@x", password |-> "pw2", name |-> "", phone |-> Undef]}

UserColumnsMe == {"id", "email", "name", "phone", "created_at", "updated_at"}

\* a users table without the unique column
EmailNeverTaken(email) == FALSE

\* the users table holds email as a unique column
EmailTaken(email) == \E u \in users : u.email = email

\* the existence query filtering on the wrong column
UsersByName(email) == {u \in users : u.name = email}

\* .from('users').select('*').eq('email', email)
UsersByEmail(email) == {u \in users : u.email = email}

\* the row the users insert creates; columns not given are null
NewUser(id, body, hashedPassword, t) ==
    [id |-> id, email |-> body.email, password_hash |-> hashedPassword,
     name |-> body.name, phone |-> Or(body.phone, JsNull),
     created_at |-> t, updated_at |-> t,
     profile_image_url |-> JsNull, bio |-> JsNull, location |-> JsNull,
     garden_name |-> JsNull, garden_size |-> JsNull]

\* a body that carries the user row as the store returned it
TokenResponseWithRow(status, message, user, token) ==
    [status |-> status, message |-> message, user |-> user, token |-> token]

\* the 201 body of /register and the 200 body of /login
TokenResponse(status, message, user, token) ==
    [status |-> status, message |-> message,
     user |-> Omit(user, "password_hash"), token |-> token]

\* POST /register, up to the existence query
PostRegister(s) ==
    /\ req[s].pc = "idle"
    /\ \E body \in RegisterBodies :
         /\ seq.users + InFlight("register") < MaxUsers \/ EmailTaken(body.email)
         /\ IF Falsy(body.email) \/ Falsy(body.password) \/ Falsy(body.name)
            THEN Respond(s, "register", Null, 0, body, Null,
                         Err(400, "Email, password, and name are required"))
            ELSE Await(s, "register", "register_check", Null, 0, body, Null)
    /\ UNCHANGED <<users, gardens, crops, seq, now, held, faults>>

\* the existence query answers; checkError is not looked at
PostRegisterCheck(s) ==
    /\ req[s].pc = "register_check"
    /\ \E ok \in StoreOutcomes :
         LET r == req[s]
             q == Single(UsersByEmail(r.body.email), ok)
         IN  /\ Spend(ok)
             /\ IF q.data # Null
                THEN Respond(s, r.op, Null, 0, r.body, [existingUser |-> q.data],
                             Err(400, "User already exists"))
                ELSE Await(s, r.op, "register_insert", Null, 0, r.body,
                           [existingUser |-> q.data])
    /\ UNCHANGED <<users, gardens, crops, seq, now, held>>

\* the insert answers
PostRegisterInsert(s) ==
    /\ req[s].pc = "register_insert"
    /\ \E ok \in StoreOutcomes, salt \in Salts :
         LET r == req[s]
             id == seq.users + 1
             user == NewUser(id, r.body, Hash(r.body.password, salt), now)
             token == Sign(user, now)
         IN  /\ Spend(ok)
             /\ IF ~ok \/ EmailTaken(r.body.email)
                THEN /\ Respond(s, r.op, Null, 0, r.body, r.loc,
                                Err(500, "Error creating user"))
                     /\ UNCHANGED <<users, seq, held>>
                ELSE /\ users' = users \cup {user}
                     /\ seq' = [seq EXCEPT !.users = id]
                     /\ held' = Keep(s, token)
                     /\ Respond(s, r.op, Null, 0, r.body, [user |-> user],
                                TokenResponse(201, "User registered successfully",
                                              user, token))
    /\ UNCHANGED <<gardens, crops, now>>

\* POST /login, up to the user query
PostLogin(s) ==
    /\ req[s].pc = "idle"
    /\ \E email \in Emails, password \in Passwords :
         LET body == [email |-> email, password |-> password]
         IN  IF Falsy(email) \/ Falsy(password)
             THEN Respond(s, "login", Null, 0, body, Null,
                          Err(400, "Email and password are required"))
             ELSE Await(s, "login", "login_lookup", Null, 0, body, Null)
    /\ UNCHANGED <<users, gardens, crops, seq, now, held, faults>>

\* a login that tells an unknown email from a wrong password
LoginResponseTelling(q, password, t) ==
    IF q.error \/ q.data = Null
    THEN Err(404, "User not found")
    ELSE IF ~Compare(password, q.data.password_hash)
    THEN Err(401, "Invalid credentials")
    ELSE TokenResponse(200, "Login successful", q.data, Sign(q.data, t))

\* what /login answers once the user query has answered with q
LoginResponse(q, password, t) ==
    IF q.error \/ q.data = Null
    THEN Err(401, "Invalid credentials")
    ELSE IF ~Compare(password, q.data.password_hash)
    THEN Err(401, "Invalid credentials")
    ELSE TokenResponse(200, "Login successful", q.data, Sign(q.data, t))

\* the user query answers
PostLoginLookup(s) ==
    /\ req[s].pc = "login_lookup"
    /\ \E ok \in StoreOutcomes :
         LET r == req[s]
             q == Single(UsersByEmail(r.body.email), ok)
             res == LoginResponse(q, r.body.password, now)
         IN  /\ Spend(ok)
             /\ held' = (IF res.status = 200 THEN Keep(s, res.token) ELSE held)
             /\ Respond(s, r.op, Null, 0, r.body, [user |-> q.data], res)
    /\ UNCHANGED <<users, gardens, crops, seq, now>>

\* the Authorization headers the client of slot s may send
Headers(s) ==
    {[kind |-> k, token |-> NoToken] : k \in {"absent", "basic", "bearer_empty"}}
    \cup (IF held[s] = NoToken THEN {}
          ELSE {[kind |-> "bearer", token |-> held[s]],
                [kind |-> "bearer", token |-> [held[s] EXCEPT !.sig = "bad"]]})

\* a /me that answers every missing token alike
MeEarlyResponseGeneric(header, t) ==
    IF header.kind \in {"absent", "basic", "bearer_empty"}
    THEN [status |-> 401, success |-> FALSE, error |-> "Token required"]
    ELSE IF Verify(header.token, t).name = "JsonWebTokenError"
    THEN [status |-> 401, success |-> FALSE, error |-> "Invalid token",
          details |-> "invalid signature"]
    ELSE IF Verify(header.token, t).name = "TokenExpiredError"
    THEN [status |-> 401, success |-> FALSE, error |-> "Token expired",
          details |-> "Please login again"]
    ELSE Null

\* what GET /me answers before it reaches the store; Null when it goes on
MeEarlyResponse(header, t) ==
    IF header.kind = "absent"
    THEN [status |-> 401, success |-> FALSE, error |-> "Authorization header is required"]
    ELSE IF header.kind = "basic"
    THEN [status |-> 401, success |-> FALSE,
          error |-> "Invalid authorization format. Use: Bearer <token>"]
    ELSE IF header.kind = "bearer_empty"
    THEN [status |-> 401, success |-> FALSE, error |-> "Token is required"]
    ELSE IF Verify(header.token, t).name = "JsonWebTokenError"
    THEN [status |-> 401, success |-> FALSE, error |-> "Invalid token",
          details |-> "invalid signature"]
    ELSE IF Verify(header.token, t).name = "TokenExpiredError"
    THEN [status |-> 401, success |-> FALSE, error |-> "Token expired",
          details |-> "Please login again"]
    ELSE Null

\* GET /me, up to the user query
GetMe(s) ==
    /\ req[s].pc = "idle"
    /\ \E header \in Headers(s) :
         LET early == MeEarlyResponse(header, now)
         IN  IF early # Null
             THEN Respond(s, "me", Null, 0, header, Null, early)
             ELSE Await(s, "me", "me_lookup", Null, 0, header,
                        [decoded |-> Decoded(header.token)])
    /\ UNCHANGED <<users, gardens, crops, seq, now, held, faults>>

\* what GET /me answers once the user query has answered with q
MeResponse(q) ==
    IF q.error
    THEN [status |-> 404, success |-> FALSE, error |-> "User not found in database"]
    ELSE IF q.data = Null
    THEN [status |-> 404, success |-> FALSE, error |-> "User not found"]
    ELSE [status |-> 200, success |-> TRUE, user |-> Pick(q.data, UserColumnsMe)]

\* the user query answers
GetMeLookup(s) ==
    /\ req[s].pc = "me_lookup"
    /\ \E ok \in StoreOutcomes :
         LET r == req[s]
             q == Single({u \in users : u.id = r.loc.decoded.id}, ok)
         IN  /\ Spend(ok)
             /\ Respond(s, r.op, Null, 0, r.body, r.loc, MeResponse(q))
    /\ UNCHANGED <<users, gardens, crops, seq, now, held>>

\* POST /logout
PostLogout(s) ==
    /\ req[s].pc = "idle"
    /\ Respond(s, "logout", Null, 0, Null, Null,
               [status |-> 200, message |-> "Logged out successfully"])
    /\ UNCHANGED <<users, gardens, crops, seq, now, held, faults>>

(***************************************************************************)
(* middleware/auth: authenticateToken                                      *)
(***************************************************************************)
\* the bearer token of the header verifies, and req.user is what it decodes to
Authenticated(header, t) == header.kind = "bearer" /\ Verify(header.token, t).ok

\* the middleware rejects the request; no handler runs
Unauthenticated(s) ==
    /\ req[s].pc = "idle"
    /\ \E header \in Headers(s) :
         /\ ~Authenticated(header, now)
         /\ Respond(s, "rejected", Null, 0, header, Null, Err(401, "Unauthorized"))
    /\ UNCHANGED <<users, gardens, crops, seq, now, held, faults>>

\* req.user of the request the client of slot s sends with its token
ReqUser(s) == Decoded(held[s])

\* the client of slot s holds a token the middleware accepts
MayCall(s) ==
    /\ req[s].pc = "idle"
    /\ held[s] # NoToken
    /\ Authenticated([kind |-> "bearer", token |-> held[s]], now)

(***************************************************************************)
(* Rows and queries shared by the gardens and crops routers.               *)
(***************************************************************************)
NumCols == {"id", "user_id", "garden_id", "progress", "quantity",
            "created_at", "updated_at"}

\* row.col of a JavaScript object: undefined when the projection left it out
Get(row, col) ==
    IF col \in DOMAIN row THEN row[col]
    ELSE IF col \in NumCols THEN UndefNum ELSE Undef

\* .update(data): the JSON sent leaves out the keys whose value is undefined
Written(row, data) ==
    [k \in DOMAIN row |->
        IF k \in DOMAIN data /\ data[k] # (IF k \in NumCols THEN UndefNum ELSE Undef)
        THEN data[k] ELSE row[k]]

\* an ownership query without its user_id filter
OwnedRowsAnyUser(table, id, userId) == {r \in table : r.id = id}

\* .eq('id', id).eq('user_id', userId)
OwnedRows(table, id, userId) == {r \in table : r.id = id /\ r.user_id = userId}

\* .eq('id', id)
RowsById(table, id) == {r \in table : r.id = id}

\* gardens.user_id and crops.user_id reference users
UserExists(userId) == \E u \in users : u.id = userId

(***************************************************************************)
(* routes/gardens.js                                                       *)
(***************************************************************************)
GardenIds == 1..MaxGardens

\* .order('created_at', { ascending: false }): the rows as a list, newest first, rows
\* of one instant in any order
Ordered(rows) ==
    {l \in [1..Cardinality(rows) -> rows] :
        /\ \A r \in rows : \E i \in DOMAIN l : l[i] = r
        /\ \A i, j \in DOMAIN l : i < j => l[i].created_at >= l[j].created_at}

\* req.body: the fields the handlers read, and a user_id the client may add
NoGardenBody == [name |-> Undef, location |-> Undef, type |-> Undef, size |-> Undef,
                 description |-> Undef, user_id |-> UndefNum]

GardenBodies ==
    {[NoGardenBody EXCEPT !.name = "Plot", !.user_id = 2],
     [NoGardenBody EXCEPT !.name = "", !.type = "indoor", !.description = "beds"]}

\* a gardenData whose user_id is the body's when the body has one
NewGardenOfBody(id, userId, body, t) ==
    [id |-> id, user_id |-> SuppliedNum(body.user_id, userId), name |-> body.name,
     location |-> Or(body.location, JsNull), type |-> Or(body.type, "outdoor"),
     size |-> Or(body.size, "medium"), description |-> Or(body.description, JsNull),
     created_at |-> t, updated_at |-> t]

\* gardenData of POST /
NewGarden(id, userId, body, t) ==
    [id |-> id, user_id |-> userId, name |-> body.name,
     location |-> Or(body.location, JsNull), type |-> Or(body.type, "outdoor"),
     size |-> Or(body.size, "medium"), description |-> Or(body.description, JsNull),
     created_at |-> t, updated_at |-> t]

\* GET /, up to the query
GetGardens(s) ==
    /\ MayCall(s)
    /\ Await(s, "get_gardens", "get_gardens_query", ReqUser(s), 0, Null, Null)
    /\ UNCHANGED <<users, gardens, crops, seq, now, held, faults>>

\* the query (.eq('user_id', req.user.id)) answers
GetGardensQuery(s) ==
    /\ req[s].pc = "get_gardens_query"
    /\ \E ok \in StoreOutcomes :
         LET r == req[s]
         IN  /\ Spend(ok)
             /\ IF ~ok
                THEN Respond(s, r.op, r.user, r.id, r.body, r.loc,
                             [status |-> 500, success |-> FALSE,
                              error |-> "Failed to fetch gardens"])
                ELSE \E list \in Ordered({g \in gardens : g.user_id = r.user.id}) :
                        Respond(s, r.op, r.user, r.id, r.body, [gardens |-> list],
                                [status |-> 200, success |-> TRUE,
                                 count |-> Len(list), gardens |-> list])
    /\ UNCHANGED <<users, gardens, crops, seq, now, held>>

\* GET /:id, up to the query
GetGarden(s) ==
    /\ MayCall(s)
    /\ \E id \in GardenIds :
         Await(s, "get_garden", "get_garden_query", ReqUser(s), id, Null, Null)
    /\ UNCHANGED <<users, gardens, crops, seq, now, held, faults>>

\* what GET /:id answers once its query has answered with q
GetGardenResponse(q) ==
    IF q.error
    THEN [status |-> 500, success |-> FALSE, error |-> "Failed to fetch garden"]
    ELSE IF q.data = Null
    THEN [status |-> 404, success |-> FALSE, error |-> "Garden not found"]
    ELSE [status |-> 200, success |-> TRUE, garden |-> q.data]

GetGardenQuery(s) ==
    /\ req[s].pc = "get_garden_query"
    /\ \E ok \in StoreOutcomes :
         LET r == req[s]
             q == Single(OwnedRows(gardens, r.id, r.user.id), ok)
         IN  /\ Spend(ok)
             /\ Respond(s, r.op, r.user, r.id, r.body, [garden |-> q.data],
                        GetGardenResponse(q))
    /\ UNCHANGED <<users, gardens, crops, seq, now, held>>

\* POST /, up to the insert
PostGarden(s) ==
    /\ MayCall(s)
    /\ seq.gardens + InFlight("post_garden") < MaxGardens
    /\ \E body \in GardenBodies :
         IF Falsy(body.name)
         THEN Respond(s, "post_garden", ReqUser(s), 0, body, Null,
                      [status |-> 400, success |-> FALSE,
                       error |-> "Garden name is required"])
         ELSE Await(s, "post_garden", "post_garden_insert", ReqUser(s), 0, body,
                    [gardenData |-> NewGarden(0, ReqUser(s).id, body, now)])
    /\ UNCHANGED <<users, gardens, crops, seq, now, held, faults>>

PostGardenInsert(s) ==
    /\ req[s].pc = "post_garden_insert"
    /\ \E ok \in StoreOutcomes :
         LET r == req[s]
             garden == [r.loc.gardenData EXCEPT !.id = seq.gardens + 1]
         IN  /\ Spend(ok)
             /\ IF ~ok \/ ~UserExists(garden.user_id)
                THEN /\ Respond(s, r.op, r.user, r.id, r.body, r.loc,
                                [status |-> 500, success |-> FALSE,
                                 error |-> "Failed to create garden"])
                     /\ UNCHANGED <<gardens, seq>>
                ELSE /\ gardens' = gardens \cup {garden}
                     /\ seq' = [seq EXCEPT !.gardens = garden.id]
                     /\ Respond(s, r.op, r.user, r.id, r.body, r.loc,
                                [status |-> 201, success |-> TRUE,
                                 message |-> "Garden created successfully",
                                 garden |-> garden])
    /\ UNCHANGED <<users, crops, now, held>>

\* an updateData that falls back to null where the projection has no value
GardenUpdateDataOrNull(body, existingGarden, t) ==
    [name |-> Or(body.name, Or(Get(existingGarden, "name"), JsNull)),
     location |-> Supplied(body.location, Get(existingGarden, "location")),
     type |-> Or(body.type, Or(Get(existingGarden, "type"), JsNull)),
     size |-> Or(body.size, Or(Get(existingGarden, "size"), JsNull)),
     description |-> Supplied(body.description, Get(existingGarden, "description")),
     updated_at |-> t]

\* updateData of PUT /:id
GardenUpdateData(body, existingGarden, t) ==
    [name |-> Or(body.name, Get(existingGarden, "name")),
     location |-> Supplied(body.location, Get(existingGarden, "location")),
     type |-> Or(body.type, Get(existingGarden, "type")),
     size |-> Or(body.size, Get(existingGarden, "size")),
     description |-> Supplied(body.description, Get(existingGarden, "description")),
     updated_at |-> t]

\* PUT /:id, up to the ownership query
PutGarden(s) ==
    /\ MayCall(s)
    /\ \E id \in GardenIds, body \in GardenBodies :
         Await(s, "put_garden", "put_garden_check", ReqUser(s), id, body, Null)
    /\ UNCHANGED <<users, gardens, crops, seq, now, held, faults>>

\* the ownership query (.select('id')) answers
PutGardenCheck(s) ==
    /\ req[s].pc = "put_garden_check"
    /\ \E ok \in StoreOutcomes :
         LET r == req[s]
             q == Single({Pick(g, {"id"}) : g \in OwnedRows(gardens, r.id, r.user.id)},
                         ok)
         IN  /\ Spend(ok)
             /\ IF q.error \/ q.data = Null
                THEN Respond(s, r.op, r.user, r.id, r.body, [existingGarden |-> q.data],
                             [status |-> 404, success |-> FALSE,
                              error |-> "Garden not found or access denied"])
                ELSE Await(s, r.op, "put_garden_update", r.user, r.id, r.body,
                           [existingGarden |-> q.data,
                            updateData |-> GardenUpdateData(r.body, q.data, now)])
    /\ UNCHANGED <<users, gardens, crops, seq, now, held>>

\* the update (.eq('id', id) alone) answers
PutGardenUpdate(s) ==
    /\ req[s].pc = "put_garden_update"
    /\ \E ok \in StoreOutcomes :
         LET r == req[s]
             hit == IF ok THEN RowsById(gardens, r.id) ELSE {}
             new == {Written(g, r.loc.updateData) : g \in hit}
             q == Single(new, ok)
         IN  /\ Spend(ok)
             /\ gardens' = (gardens \ hit) \cup new
             /\ Respond(s, r.op, r.user, r.id, r.body, r.loc,
                        IF q.error
                        THEN [status |-> 500, success |-> FALSE,
                              error |-> "Failed to update garden"]
                        ELSE [status |-> 200, success |-> TRUE,
                              message |-> "Garden updated successfully",
                              garden |-> q.data])
    /\ UNCHANGED <<users, crops, seq, now, held>>

\* DELETE /:id, up to the ownership query
DeleteGarden(s) ==
    /\ MayCall(s)
    /\ \E id \in GardenIds :
         Await(s, "delete_garden", "delete_garden_check", ReqUser(s), id, Null, Null)
    /\ UNCHANGED <<users, gardens, crops, seq, now, held, faults>>

DeleteGardenCheck(s) ==
    /\ req[s].pc = "delete_garden_check"
    /\ \E ok \in StoreOutcomes :
         LET r == req[s]
             q == Single({Pick(g, {"id"}) : g \in OwnedRows(gardens, r.id, r.user.id)},
                         ok)
         IN  /\ Spend(ok)
             /\ IF q.error \/ q.data = Null
                THEN Respond(s, r.op, r.user, r.id, r.body, [existingGarden |-> q.data],
                             [status |-> 404, success |-> FALSE,
                              error |-> "Garden not found or access denied"])
                ELSE Await(s, r.op, "delete_garden_delete", r.user, r.id, r.body,
                           [existingGarden |-> q.data])
    /\ UNCHANGED <<users, gardens, crops, seq, now, held>>

\* the delete (.eq('id', id) alone) answers; the gardens row is all it removes
DeleteGardenDelete(s) ==
    /\ req[s].pc = "delete_garden_delete"
    /\ \E ok \in StoreOutcomes :
         LET r == req[s]
             hit == IF ok THEN RowsById(gardens, r.id) ELSE {}
         IN  /\ Spend(ok)
             /\ gardens' = gardens \ hit
             /\ Respond(s, r.op, r.user, r.id, r.body, r.loc,
                        IF ~ok
                        THEN [status |-> 500, success |-> FALSE,
                              error |-> "Failed to delete garden"]
                        ELSE [status |-> 200, success |-> TRUE,
                              message |-> "Garden deleted successfully"])
    /\ UNCHANGED <<users, crops, seq, now, held>>

(***************************************************************************)
(* routes/crops.js                                                         *)
(***************************************************************************)
CropIds == 1..MaxCrops

NoCropBody ==
    [name |-> Undef, category |-> Undef, variety |-> Undef, planting_date |-> Undef,
     expected_harvest |-> Undef, status |-> Undef, progress |-> UndefNum,
     notes |-> Undef, image_url |-> Undef, is_shared |-> Undef,
     quantity |-> UndefNum, quantity_unit |-> Undef,
     garden_id |-> UndefNum, user_id |-> UndefNum]

CropPostBodies ==
    {NoCropBody,
     [NoCropBody EXCEPT !.name = "Kale", !.progress = 30, !.user_id = 2]}

CropPutBodies ==
    {[NoCropBody EXCEPT !.progress = 50],
     [NoCropBody EXCEPT !.name = "", !.notes = "water", !.garden_id = 2,
                        !.user_id = 2]}

\* cropData of POST /
NewCrop(id, gardenId, userId, body, t) ==
    [id |-> id, garden_id |-> gardenId, user_id |-> userId, name |-> body.name,
     category |-> Or(body.category, "vegetable"),
     variety |-> Or(body.variety, JsNull),
     planting_date |-> Or(body.planting_date, JsNull),
     expected_harvest |-> Or(body.expected_harvest, JsNull),
     status |-> Or(body.status, "seedling"),
     progress |-> OrNum(body.progress, 0),
     notes |-> Or(body.notes, JsNull),
     image_url |-> Or(body.image_url, JsNull),
     is_shared |-> Or(body.is_shared, "false"),
     quantity |-> OrNum(body.quantity, 1),
     quantity_unit |-> Or(body.quantity_unit, JsNull),
     created_at |-> t, updated_at |-> t]

\* .select('*, gardens (name, location)'): the crop with its garden embedded
WithGarden(crop) ==
    LET gs == RowsById(gardens, crop.garden_id)
    IN  [k \in DOMAIN crop \cup {"gardens"} |->
            IF k # "gardens" THEN crop[k]
            ELSE IF gs = {} THEN Null
            ELSE Pick(CHOOSE g \in gs : TRUE, {"name", "location"})]

\* GET /, up to the query
GetCrops(s) ==
    /\ MayCall(s)
    /\ Await(s, "get_crops", "get_crops_query", ReqUser(s), 0, Null, Null)
    /\ UNCHANGED <<users, gardens, crops, seq, now, held, faults>>

\* a list query that leaves out the user filter
GetCropsQueryOfAll(s) ==
    /\ req[s].pc = "get_crops_query"
    /\ \E ok \in StoreOutcomes :
         LET r == req[s]
         IN  /\ Spend(ok)
             /\ IF ~ok
                THEN Respond(s, r.op, r.user, r.id, r.body, r.loc,
                             [status |-> 500, success |-> FALSE,
                              error |-> "Failed to fetch crops"])
                ELSE \E list \in Ordered(crops) :
                        Respond(s, r.op, r.user, r.id, r.body, [crops |-> list],
                                [status |-> 200, success |-> TRUE,
                                 count |-> Len(list), crops |-> list])
    /\ UNCHANGED <<users, gardens, crops, seq, now, held>>

\* the query (.eq('user_id', req.user.id)) answers
GetCropsQuery(s) ==
    /\ req[s].pc = "get_crops_query"
    /\ \E ok \in StoreOutcomes :
         LET r == req[s]
         IN  /\ Spend(ok)
             /\ IF ~ok
                THEN Respond(s, r.op, r.user, r.id, r.body, r.loc,
                             [status |-> 500, success |-> FALSE,
                              error |-> "Failed to fetch crops"])
                ELSE \E list \in Ordered({c \in crops : c.user_id = r.user.id}) :
                        Respond(s, r.op, r.user, r.id, r.body, [crops |-> list],
                                [status |-> 200, success |-> TRUE,
                                 count |-> Len(list), crops |-> list])
    /\ UNCHANGED <<users, gardens, crops, seq, now, held>>

\* GET /garden/:gardenId, up to the garden query
GetGardenCrops(s) ==
    /\ MayCall(s)
    /\ \E gardenId \in GardenIds :
         Await(s, "get_garden_crops", "get_garden_crops_check", ReqUser(s), gardenId,
               Null, Null)
    /\ UNCHANGED <<users, gardens, crops, seq, now, held, faults>>

\* the garden query (.select('id'), id and user_id) answers
GetGardenCropsCheck(s) ==
    /\ req[s].pc = "get_garden_crops_check"
    /\ \E ok \in StoreOutcomes :
         LET r == req[s]
             q == Single({Pick(g, {"id"}) : g \in OwnedRows(gardens, r.id, r.user.id)},
                         ok)
         IN  /\ Spend(ok)
             /\ IF q.error \/ q.data = Null
                THEN Respond(s, r.op, r.user, r.id, r.body, [garden |-> q.data],
                             [status |-> 404, success |-> FALSE,
                              error |-> "Garden not found or access denied"])
                ELSE Await(s, r.op, "get_garden_crops_query", r.user, r.id, r.body,
                           [garden |-> q.data])
    /\ UNCHANGED <<users, gardens, crops, seq, now, held>>

\* the crops query (.eq('garden_id', gardenId) alone) answers
GetGardenCropsQuery(s) ==
    /\ req[s].pc = "get_garden_crops_query"
    /\ \E ok \in StoreOutcomes :
         LET r == req[s]
         IN  /\ Spend(ok)
             /\ IF ~ok
                THEN Respond(s, r.op, r.user, r.id, r.body, r.loc,
                             [status |-> 500, success |-> FALSE,
                              error |-> "Failed to fetch garden crops"])
                ELSE \E list \in Ordered({c \in crops : c.garden_id = r.id}) :
                        Respond(s, r.op, r.user, r.id, r.body,
                                [garden |-> r.loc.garden, crops |-> list],
                                [status |-> 200, success |-> TRUE,
                                 count |-> Len(list), crops |-> list])
    /\ UNCHANGED <<users, gardens, crops, seq, now, held>>

\* GET /:id, up to the query
GetCrop(s) ==
    /\ MayCall(s)
    /\ \E id \in CropIds :
         Await(s, "get_crop", "get_crop_query", ReqUser(s), id, Null, Null)
    /\ UNCHANGED <<users, gardens, crops, seq, now, held, faults>>

\* what GET /:id answers once its query has answered with q
GetCropResponse(q) ==
    IF q.error
    THEN [status |-> 500, success |-> FALSE, error |-> "Failed to fetch crop"]
    ELSE IF q.data = Null
    THEN [status |-> 404, success |-> FALSE, error |-> "Crop not found"]
    ELSE [status |-> 200, success |-> TRUE, crop |-> q.data]

GetCropQuery(s) ==
    /\ req[s].pc = "get_crop_query"
    /\ \E ok \in StoreOutcomes :
         LET r == req[s]
             q == Single({WithGarden(c) : c \in OwnedRows(crops, r.id, r.user.id)}, ok)
         IN  /\ Spend(ok)
             /\ Respond(s, r.op, r.user, r.id, r.body, [crop |-> q.data],
                        GetCropResponse(q))
    /\ UNCHANGED <<users, gardens, crops, seq, now, held>>

\* POST /, up to the garden query
PostCrop(s) ==
    /\ MayCall(s)
    /\ seq.crops + InFlight("post_crop") < MaxCrops
    /\ \E garden_id \in {0} \cup GardenIds, fields \in CropPostBodies :
         LET body == [fields EXCEPT
                         !.garden_id = IF garden_id = 0 THEN UndefNum ELSE garden_id]
         IN
         IF Falsy(body.name) \/ garden_id = 0
         THEN Respond(s, "post_crop", ReqUser(s), garden_id, body, Null,
                      [status |-> 400, success |-> FALSE,
                       error |-> "Crop name and garden ID are required"])
         ELSE Await(s, "post_crop", "post_crop_check", ReqUser(s), garden_id, body, Null)
    /\ UNCHANGED <<users, gardens, crops, seq, now, held, faults>>

\* the garden ownership query answers; req[s].id is body.garden_id
PostCropCheck(s) ==
    /\ req[s].pc = "post_crop_check"
    /\ \E ok \in StoreOutcomes :
         LET r == req[s]
             q == Single({Pick(g, {"id"}) : g \in OwnedRows(gardens, r.id, r.user.id)},
                         ok)
         IN  /\ Spend(ok)
             /\ IF q.error \/ q.data = Null
                THEN Respond(s, r.op, r.user, r.id, r.body, [garden |-> q.data],
                             [status |-> 404, success |-> FALSE,
                              error |-> "Garden not found or access denied"])
                ELSE Await(s, r.op, "post_crop_insert", r.user, r.id, r.body,
                           [garden |-> q.data,
                            cropData |-> NewCrop(0, r.id, r.user.id, r.body, now)])
    /\ UNCHANGED <<users, gardens, crops, seq, now, held>>

PostCropInsert(s) ==
    /\ req[s].pc = "post_crop_insert"
    /\ \E ok \in StoreOutcomes :
         LET r == req[s]
             crop == [r.loc.cropData EXCEPT !.id = seq.crops + 1]
         IN  /\ Spend(ok)
             /\ IF ~ok \/ ~UserExists(crop.user_id)
                THEN /\ Respond(s, r.op, r.user, r.id, r.body, r.loc,
                                [status |-> 500, success |-> FALSE,
                                 error |-> "Failed to create crop"])
                     /\ UNCHANGED <<crops, seq>>
                ELSE /\ crops' = crops \cup {crop}
                     /\ seq' = [seq EXCEPT !.crops = crop.id]
                     /\ Respond(s, r.op, r.user, r.id, r.body, r.loc,
                                [status |-> 201, success |-> TRUE,
                                 message |-> "Crop created successfully",
                                 crop |-> crop])
    /\ UNCHANGED <<users, gardens, now, held>>

\* an updateData that defaults notes the way cropData of POST / does
CropUpdateDataDefaults(body, existingCrop, t) ==
    [name |-> Or(body.name, existingCrop.name),
     category |-> Or(body.category, existingCrop.category),
     variety |-> Supplied(body.variety, existingCrop.variety),
     planting_date |-> Supplied(body.planting_date, existingCrop.planting_date),
     expected_harvest |-> Supplied(body.expected_harvest, existingCrop.expected_harvest),
     status |-> Or(body.status, existingCrop.status),
     progress |-> SuppliedNum(body.progress, existingCrop.progress),
     notes |-> Or(body.notes, JsNull),
     image_url |-> Supplied(body.image_url, existingCrop.image_url),
     is_shared |-> Supplied(body.is_shared, existingCrop.is_shared),
     quantity |-> SuppliedNum(body.quantity, existingCrop.quantity),
     quantity_unit |-> Supplied(body.quantity_unit, existingCrop.quantity_unit),
     updated_at |-> t]

\* updateData of PUT /:id
CropUpdateData(body, existingCrop, t) ==
    [name |-> Or(body.name, existingCrop.name),
     category |-> Or(body.category, existingCrop.category),
     variety |-> Supplied(body.variety, existingCrop.variety),
     planting_date |-> Supplied(body.planting_date, existingCrop.planting_date),
     expected_harvest |-> Supplied(body.expected_harvest, existingCrop.expected_harvest),
     status |-> Or(body.status, existingCrop.status),
     progress |-> SuppliedNum(body.progress, existingCrop.progress),
     notes |-> Supplied(body.notes, existingCrop.notes),
     image_url |-> Supplied(body.image_url, existingCrop.image_url),
     is_shared |-> Supplied(body.is_shared, existingCrop.is_shared),
     quantity |-> SuppliedNum(body.quantity, existingCrop.quantity),
     quantity_unit |-> Supplied(body.quantity_unit, existingCrop.quantity_unit),
     updated_at |-> t]

\* PUT /:id, up to the ownership query
PutCrop(s) ==
    /\ MayCall(s)
    /\ \E id \in CropIds, body \in CropPutBodies :
         Await(s, "put_crop", "put_crop_check", ReqUser(s), id, body, Null)
    /\ UNCHANGED <<users, gardens, crops, seq, now, held, faults>>

\* the ownership query (.select('*')) answers
PutCropCheck(s) ==
    /\ req[s].pc = "put_crop_check"
    /\ \E ok \in StoreOutcomes :
         LET r == req[s]
             q == Single(OwnedRows(crops, r.id, r.user.id), ok)
         IN  /\ Spend(ok)
             /\ IF q.error \/ q.data = Null
                THEN Respond(s, r.op, r.user, r.id, r.body, [existingCrop |-> q.data],
                             [status |-> 404, success |-> FALSE,
                              error |-> "Crop not found or access denied"])
                ELSE Await(s, r.op, "put_crop_update", r.user, r.id, r.body,
                           [existingCrop |-> q.data,
                            updateData |-> CropUpdateData(r.body, q.data, now)])
    /\ UNCHANGED <<users, gardens, crops, seq, now, held>>

\* the update (.eq('id', id) alone) answers
PutCropUpdate(s) ==
    /\ req[s].pc = "put_crop_update"
    /\ \E ok \in StoreOutcomes :
         LET r == req[s]
             hit == IF ok THEN RowsById(crops, r.id) ELSE {}
             new == {Written(c, r.loc.updateData) : c \in hit}
             q == Single(new, ok)
         IN  /\ Spend(ok)
             /\ crops' = (crops \ hit) \cup new
             /\ Respond(s, r.op, r.user, r.id, r.body, r.loc,
                        IF q.error
                        THEN [status |-> 500, success |-> FALSE,
                              error |-> "Failed to update crop"]
                        ELSE [status |-> 200, success |-> TRUE,
                              message |-> "Crop updated successfully",
                              crop |-> q.data])
    /\ UNCHANGED <<users, gardens, seq, now, held>>

\* DELETE /:id, up to the ownership query
DeleteCrop(s) ==
    /\ MayCall(s)
    /\ \E id \in CropIds :
         Await(s, "delete_crop", "delete_crop_check", ReqUser(s), id, Null, Null)
    /\ UNCHANGED <<users, gardens, crops, seq, now, held, faults>>

DeleteCropCheck(s) ==
    /\ req[s].pc = "delete_crop_check"
    /\ \E ok \in StoreOutcomes :
         LET r == req[s]
             q == Single({Pick(c, {"id"}) : c \in OwnedRows(crops, r.id, r.user.id)}, ok)
         IN  /\ Spend(ok)
             /\ IF q.error \/ q.data = Null
                THEN Respond(s, r.op, r.user, r.id, r.body, [existingCrop |-> q.data],
                             [status |-> 404, success |-> FALSE,
                              error |-> "Crop not found or access denied"])
                ELSE Await(s, r.op, "delete_crop_delete", r.user, r.id, r.body,
                           [existingCrop |-> q.data])
    /\ UNCHANGED <<users, gardens, crops, seq, now, held>>

\* the delete (.eq('id', id) alone) answers
DeleteCropDelete(s) ==
    /\ req[s].pc = "delete_crop_delete"
    /\ \E ok \in StoreOutcomes :
         LET r == req[s]
             hit == IF ok THEN RowsById(crops, r.id) ELSE {}
         IN  /\ Spend(ok)
             /\ crops' = crops \ hit
             /\ Respond(s, r.op, r.user, r.id, r.body, r.loc,
                        IF ~ok
                        THEN [status |-> 500, success |-> FALSE,
                              error |-> "Failed to delete crop"]
                        ELSE [status |-> 200, success |-> TRUE,
                              message |-> "Crop deleted successfully"])
    /\ UNCHANGED <<users, gardens, seq, now, held>>

(***************************************************************************)
(* The profile router.                                                     *)
(***************************************************************************)
UserIds == 1..MaxUsers

ProfileColumns ==
    {"id", "email", "name", "phone", "created_at", "profile_image_url", "bio",
     "location", "garden_name", "garden_size"}

ImageColumns == {"id", "email", "name", "profile_image_url"}

NoProfileBody == [name |-> Undef, bio |-> Undef, location |-> Undef,
                  garden_name |-> Undef, garden_size |-> Undef]

ProfileBodies ==
    {[NoProfileBody EXCEPT !.name = "Zed"],
     [NoProfileBody EXCEPT !.name = "", !.bio = "grower"]}

\* req.file.path after the upload middleware; undefined when no file was sent
ImageUrls == {Undef, "https://media/harvest-hub/profiles/p1.jpg"}

\* Math.floor(Math.random() * n) + lo, at its two ends
Random(lo, n) == {lo, lo + n - 1}

\* Math.round of sum / count
RoundDiv(sum, count) == (2 * sum + count) \div (2 * count)

\* statistics whose average is cut off instead of rounded
StatsTruncated(q) ==
    [totalCrops |-> IF q.error THEN 0 ELSE Cardinality(q.data),
     activeCrops |->
        IF q.error THEN 0 ELSE Cardinality({c \in q.data : c.status # "harvest"}),
     sharedCrops |->
        IF q.error THEN 0 ELSE Cardinality({c \in q.data : ~Falsy(c.is_shared)}),
     avgProgress |->
        IF q.error \/ q.data = {} THEN 0
        ELSE LET Sum[S \in SUBSET q.data] ==
                     IF S = {} THEN 0
                     ELSE LET c == CHOOSE x \in S : TRUE
                          IN  OrNum(c.progress, 0) + Sum[S \ {c}]
             IN  Sum[q.data] \div Cardinality(q.data)]

\* the statistics GET /:userId computes from the crops query
Stats(q) ==
    [totalCrops |-> IF q.error THEN 0 ELSE Cardinality(q.data),
     activeCrops |->
        IF q.error THEN 0 ELSE Cardinality({c \in q.data : c.status # "harvest"}),
     sharedCrops |->
        IF q.error THEN 0 ELSE Cardinality({c \in q.data : ~Falsy(c.is_shared)}),
     avgProgress |->
        IF q.error \/ q.data = {} THEN 0
        ELSE LET Sum[S \in SUBSET q.data] ==
                     IF S = {} THEN 0
                     ELSE LET c == CHOOSE x \in S : TRUE
                          IN  OrNum(c.progress, 0) + Sum[S \ {c}]
             IN  RoundDiv(Sum[q.data], Cardinality(q.data))]

\* { ...a, ...b }
Spread(a, b) == [k \in DOMAIN a \cup DOMAIN b |-> IF k \in DOMAIN b THEN b[k] ELSE a[k]]

\* a query that returns rows, or an error with data null
Many(rows, ok) ==
    IF ok THEN [data |-> rows, error |-> FALSE] ELSE [data |-> {}, error |-> TRUE]

\* the recent shared crops of a user
SharedHistory(userId) ==
    {Pick(c, {"id", "name", "image_url", "created_at"}) :
        c \in {x \in crops : x.user_id = userId /\ x.is_shared = "true"}}

\* GET /:userId, up to the user query
GetProfile(s) ==
    /\ MayCall(s)
    /\ \E userId \in UserIds :
         Await(s, "get_profile", "get_profile_user", ReqUser(s), userId, Null, Null)
    /\ UNCHANGED <<users, gardens, crops, seq, now, held, faults>>

GetProfileUser(s) ==
    /\ req[s].pc = "get_profile_user"
    /\ \E ok \in StoreOutcomes :
         LET r == req[s]
             q == Single({Pick(u, ProfileColumns) : u \in RowsById(users, r.id)}, ok)
         IN  /\ Spend(ok)
             /\ IF q.error \/ q.data = Null
                THEN Respond(s, r.op, r.user, r.id, r.body, Null,
                             [status |-> 404, success |-> FALSE,
                              error |-> "User not found"])
                ELSE Await(s, r.op, "get_profile_crops", r.user, r.id, r.body,
                           [user |-> q.data])
    /\ UNCHANGED <<users, gardens, crops, seq, now, held>>

GetProfileCrops(s) ==
    /\ req[s].pc = "get_profile_crops"
    /\ \E ok \in StoreOutcomes :
         LET r == req[s]
             q == Many({Pick(c, {"id", "name", "status", "progress", "is_shared"}) :
                           c \in {x \in crops : x.user_id = r.id}}, ok)
         IN  /\ Spend(ok)
             /\ Await(s, r.op, "get_profile_history", r.user, r.id, r.body,
                      [user |-> r.loc.user, stats |-> Stats(q)])
    /\ UNCHANGED <<users, gardens, crops, seq, now, held>>

GetProfileHistory(s) ==
    /\ req[s].pc = "get_profile_history"
    /\ \E ok \in StoreOutcomes :
         LET r == req[s]
             q == Many(SharedHistory(r.id), ok)
         IN  /\ Spend(ok)
             /\ Respond(s, r.op, r.user, r.id, r.body, r.loc,
                        [status |-> 200, success |-> TRUE,
                         profile |-> Spread(r.loc.user,
                                            [stats |-> r.loc.stats,
                                             sharingHistory |-> q.data])])
    /\ UNCHANGED <<users, gardens, crops, seq, now, held>>

\* GET /, up to the user query
GetOwnProfile(s) ==
    /\ MayCall(s)
    /\ Await(s, "get_own_profile", "get_own_profile_user", ReqUser(s), 0, Null, Null)
    /\ UNCHANGED <<users, gardens, crops, seq, now, held, faults>>

GetOwnProfileUser(s) ==
    /\ req[s].pc = "get_own_profile_user"
    /\ \E ok \in StoreOutcomes :
         LET r == req[s]
             q == Single({Pick(u, ProfileColumns) : u \in RowsById(users, r.user.id)},
                         ok)
         IN  /\ Spend(ok)
             /\ IF q.error \/ q.data = Null
                THEN Respond(s, r.op, r.user, r.id, r.body, Null,
                             [status |-> 404, success |-> FALSE,
                              error |-> "User not found"])
                ELSE Await(s, r.op, "get_own_profile_gardens", r.user, r.id, r.body,
                           [user |-> q.data])
    /\ UNCHANGED <<users, gardens, crops, seq, now, held>>

GetOwnProfileGardens(s) ==
    /\ req[s].pc = "get_own_profile_gardens"
    /\ \E ok \in StoreOutcomes :
         LET r == req[s]
             q == Many({Pick(g, {"id", "name", "type", "size", "location"}) :
                           g \in {x \in gardens : x.user_id = r.user.id}}, ok)
         IN  /\ Spend(ok)
             /\ Await(s, r.op, "get_own_profile_crops", r.user, r.id, r.body,
                      [user |-> r.loc.user, gardens |-> q.data])
    /\ UNCHANGED <<users, gardens, crops, seq, now, held>>

GetOwnProfileCrops(s) ==
    /\ req[s].pc = "get_own_profile_crops"
    /\ \E ok \in StoreOutcomes :
         LET r == req[s]
             q == Many({Pick(c, {"id", "name", "category", "status", "progress",
                                 "image_url"}) :
                           c \in {x \in crops : x.user_id = r.user.id
                                                /\ x.status # "harvest"}}, ok)
         IN  /\ Spend(ok)
             /\ Await(s, r.op, "get_own_profile_history", r.user, r.id, r.body,
                      [user |-> r.loc.user, gardens |-> r.loc.gardens,
                       activeCrops |-> q.data])
    /\ UNCHANGED <<users, gardens, crops, seq, now, held>>

GetOwnProfileHistory(s) ==
    /\ req[s].pc = "get_own_profile_history"
    /\ \E ok \in StoreOutcomes, sharedKg \in Random(5, 20), helpedCount \in Random(1, 10),
          savedCO2 \in Random(5, 15) :
         LET r == req[s]
             q == Many(SharedHistory(r.user.id), ok)
         IN  /\ Spend(ok)
             /\ Respond(s, r.op, r.user, r.id, r.body, r.loc,
                        [status |-> 200, success |-> TRUE,
                         profile |->
                            Spread(r.loc.user,
                                   [impact |-> [sharedKg |-> sharedKg,
                                                helpedCount |-> helpedCount,
                                                savedCO2 |-> savedCO2],
                                    gardens |-> r.loc.gardens,
                                    activeCrops |-> r.loc.activeCrops,
                                    sharingHistory |-> q.data])])
    /\ UNCHANGED <<users, gardens, crops, seq, now, held>>

\* updateData of PUT /: only the keys the body sets
ProfileUpdateData(body, t) ==
    [name |-> IF Falsy(body.name) THEN Undef ELSE body.name,
     bio |-> body.bio, location |-> body.location,
     garden_name |-> body.garden_name, garden_size |-> body.garden_size,
     updated_at |-> t]

\* PUT /, up to the update
PutProfile(s) ==
    /\ MayCall(s)
    /\ \E body \in ProfileBodies :
         Await(s, "put_profile", "put_profile_update", ReqUser(s), 0, body,
               [updateData |-> ProfileUpdateData(body, now)])
    /\ UNCHANGED <<users, gardens, crops, seq, now, held, faults>>

\* an update of the requester's users row answers: .eq('id', req.user.id),
\* .select(cols).single()
UserUpdate(s, cols, failure, success) ==
    \E ok \in StoreOutcomes :
        LET r == req[s]
            hit == IF ok THEN RowsById(users, r.user.id) ELSE {}
            new == {Written(u, r.loc.updateData) : u \in hit}
            q == Single({Pick(u, cols) : u \in new}, ok)
        IN  /\ Spend(ok)
            /\ users' = (users \ hit) \cup new
            /\ Respond(s, r.op, r.user, r.id, r.body, r.loc,
                       IF q.error
                       THEN [status |-> 500, success |-> FALSE, error |-> failure]
                       ELSE [status |-> 200, success |-> TRUE, message |-> success,
                             user |-> q.data])

PutProfileUpdate(s) ==
    /\ req[s].pc = "put_profile_update"
    /\ UserUpdate(s, ProfileColumns, "Failed to update profile",
                  "Profile updated successfully")
    /\ UNCHANGED <<gardens, crops, seq, now, held>>

\* POST /upload-image, after the upload middleware, up to the update
PostUploadImage(s) ==
    /\ MayCall(s)
    /\ \E imageUrl \in ImageUrls :
         IF imageUrl = Undef
         THEN Respond(s, "upload_image", ReqUser(s), 0, Null, Null,
                      [status |-> 400, success |-> FALSE,
                       error |-> "No image file provided"])
         ELSE Await(s, "upload_image", "upload_image_update", ReqUser(s), 0, Null,
                    [updateData |-> [profile_image_url |-> imageUrl,
                                     updated_at |-> now]])
    /\ UNCHANGED <<users, gardens, crops, seq, now, held, faults>>

PostUploadImageUpdate(s) ==
    /\ req[s].pc = "upload_image_update"
    /\ UserUpdate(s, ImageColumns, "Failed to update profile image",
                  "Profile image uploaded successfully")
    /\ UNCHANGED <<gardens, crops, seq, now, held>>

\* the query for the stored image URL answers; fetchError is only logged.  With a
\* URL stored the handler awaits the remote destroy, else its next store call
ImageFetch(s, next, destroy, loc) ==
    \E ok \in StoreOutcomes :
        LET r == req[s]
            q == Single({Pick(u, {"profile_image_url"}) :
                            u \in RowsById(users, r.user.id)}, ok)
        IN  /\ Spend(ok)
            /\ IF q.data # Null /\ ~Falsy(q.data.profile_image_url)
               THEN Await(s, r.op, destroy, r.user, r.id, r.body, [user |-> q.data])
               ELSE Await(s, r.op, next, r.user, r.id, r.body, loc)

\* a destroy whose throw reaches the handler's own catch
ImageDestroyUncaught(s, next, loc) ==
    \E destroyed \in BOOLEAN :
        LET r == req[s]
            l == Spread(loc, [destroyed |-> destroyed])
        IN  IF destroyed
            THEN Await(s, r.op, next, r.user, r.id, r.body, l)
            ELSE Respond(s, r.op, r.user, r.id, r.body, l,
                         [status |-> 500, success |-> FALSE,
                          error |-> "Failed to remove image"])

\* cloudinary.uploader.destroy answers or throws; the throw is caught and logged
ImageDestroy(s, next, loc) ==
    \E destroyed \in BOOLEAN :
        LET r == req[s]
        IN  Await(s, r.op, next, r.user, r.id, r.body,
                  Spread(loc, [destroyed |-> destroyed]))

\* the update DELETE /image sends
NoImage(t) == [updateData |-> [profile_image_url |-> JsNull, updated_at |-> t]]

\* DELETE /image, up to the query for the stored URL
DeleteImage(s) ==
    /\ MayCall(s)
    /\ Await(s, "delete_image", "delete_image_fetch", ReqUser(s), 0, Null, Null)
    /\ UNCHANGED <<users, gardens, crops, seq, now, held, faults>>

DeleteImageFetch(s) ==
    /\ req[s].pc = "delete_image_fetch"
    /\ ImageFetch(s, "delete_image_update", "delete_image_destroy", NoImage(now))
    /\ UNCHANGED <<users, gardens, crops, seq, now, held>>

DeleteImageDestroy(s) ==
    /\ req[s].pc = "delete_image_destroy"
    /\ ImageDestroy(s, "delete_image_update", NoImage(now))
    /\ UNCHANGED <<users, gardens, crops, seq, now, held, faults>>

DeleteImageUpdate(s) ==
    /\ req[s].pc = "delete_image_update"
    /\ UserUpdate(s, ImageColumns, "Failed to remove profile image",
                  "Profile image removed successfully")
    /\ UNCHANGED <<gardens, crops, seq, now, held>>

\* GET /stats/impact
GetImpact(s) ==
    /\ MayCall(s)
    /\ \E sharedKg \in Random(5, 20), helpedCount \in Random(1, 10),
          savedCO2 \in Random(5, 15), sharedChange \in Random(1, 5),
          helpedChange \in Random(1, 3), savedChange \in Random(1, 4) :
         Respond(s, "get_impact", ReqUser(s), 0, Null, Null,
                 [status |-> 200, success |-> TRUE,
                  impact |-> [sharedKg |-> sharedKg, helpedCount |-> helpedCount,
                              savedCO2 |-> savedCO2, sharedChange |-> sharedChange,
                              helpedChange |-> helpedChange,
                              savedChange |-> savedChange]])
    /\ UNCHANGED <<users, gardens, crops, seq, now, held, faults>>

\* DELETE /, up to the query for the stored URL
DeleteAccount(s) ==
    /\ MayCall(s)
    /\ Await(s, "delete_account", "delete_account_fetch", ReqUser(s), 0, Null, Null)
    /\ UNCHANGED <<users, gardens, crops, seq, now, held, faults>>

DeleteAccountFetch(s) ==
    /\ req[s].pc = "delete_account_fetch"
    /\ ImageFetch(s, "delete_account_delete", "delete_account_destroy", Null)
    /\ UNCHANGED <<users, gardens, crops, seq, now, held>>

DeleteAccountDestroy(s) ==
    /\ req[s].pc = "delete_account_destroy"
    /\ ImageDestroy(s, "delete_account_delete", Null)
    /\ UNCHANGED <<users, gardens, crops, seq, now, held, faults>>

\* the rows of a table that go when these users rows go
Cascaded(table, gone) == {r \in table : \E u \in gone : r.user_id = u.id}

\* a users delete whose filter matches no row
DeleteAccountMatchesNothing(s) ==
    /\ req[s].pc = "delete_account_delete"
    /\ \E ok \in StoreOutcomes :
         LET r == req[s]
         IN  /\ Spend(ok)
             /\ Respond(s, r.op, r.user, r.id, r.body, r.loc,
                        IF ~ok
                        THEN [status |-> 500, success |-> FALSE,
                              error |-> "Failed to delete account"]
                        ELSE [status |-> 200, success |-> TRUE,
                              message |-> "Account deleted successfully"])
    /\ UNCHANGED <<users, gardens, crops, seq, now, held>>

\* the users delete (.eq('id', req.user.id)) answers
DeleteAccountDelete(s) ==
    /\ req[s].pc = "delete_account_delete"
    /\ \E ok \in StoreOutcomes :
         LET r == req[s]
             hit == IF ok THEN RowsById(users, r.user.id) ELSE {}
         IN  /\ Spend(ok)
             /\ users' = users \ hit
             /\ gardens' = gardens \ Cascaded(gardens, hit)
             /\ crops' = crops \ Cascaded(crops, hit)
             /\ Respond(s, r.op, r.user, r.id, r.body, r.loc,
                        IF ~ok
                        THEN [status |-> 500, success |-> FALSE,
                              error |-> "Failed to delete account"]
                        ELSE [status |-> 200, success |-> TRUE,
                              message |-> "Account deleted successfully"])
    /\ UNCHANGED <<seq, now, held>>

(***************************************************************************)
(* The application: the routes of the routers, the mounts, the fallbacks.  *)
(* A path is the sequence of its segments.                                 *)
(***************************************************************************)
Methods == {"GET", "POST", "DELETE"}

Paths ==
    {<<"health">>, <<"api">>, <<"api", "auth", "login">>, <<"api", "auth", "logout">>,
     <<"api", "auth", "me", "x">>, <<"api", "gardens">>, <<"api", "gardens", "1">>,
     <<"api", "crops", "1">>, <<"api", "profile">>,
     <<"api", "profile", "stats", "impact">>, <<"api", "users">>}

\* the segments of a route that take any value
ParamSegments == {":id", ":userId", ":gardenId"}

\* router.METHOD(path, ...) of each router
AuthRoutes ==
    {[method |-> "POST", path |-> <<"register">>],
     [method |-> "POST", path |-> <<"login">>],
     [method |-> "GET", path |-> <<"me">>],
     [method |-> "POST", path |-> <<"logout">>]}

GardenRoutes ==
    {[method |-> "GET", path |-> <<>>], [method |-> "GET", path |-> <<":id">>],
     [method |-> "POST", path |-> <<>>], [method |-> "PUT", path |-> <<":id">>],
     [method |-> "DELETE", path |-> <<":id">>]}

CropRoutes ==
    {[method |-> "GET", path |-> <<>>],
     [method |-> "GET", path |-> <<"garden", ":gardenId">>],
     [method |-> "GET", path |-> <<":id">>], [method |-> "POST", path |-> <<>>],
     [method |-> "PUT", path |-> <<":id">>], [method |-> "DELETE", path |-> <<":id">>]}

ProfileRoutes ==
    {[method |-> "GET", path |-> <<":userId">>], [method |-> "GET", path |-> <<>>],
     [method |-> "PUT", path |-> <<>>],
     [method |-> "POST", path |-> <<"upload-image">>],
     [method |-> "DELETE", path |-> <<"image">>],
     [method |-> "GET", path |-> <<"stats", "impact">>],
     [method |-> "DELETE", path |-> <<>>]}

RouterRoutes(router) ==
    IF router = "auth" THEN AuthRoutes
    ELSE IF router = "gardens" THEN GardenRoutes
    ELSE IF router = "crops" THEN CropRoutes
    ELSE IF router = "profile" THEN ProfileRoutes
    ELSE {}

\* app.use(prefix, router)
Mounts ==
    {[prefix |-> <<"api", "auth">>, router |-> "auth"],
     [prefix |-> <<"api", "gardens">>, router |-> "gardens"],
     [prefix |-> <<"api", "crops">>, router |-> "crops"]}

HasPrefix(path, prefix) ==
    Len(path) >= Len(prefix) /\ SubSeq(path, 1, Len(prefix)) = prefix

Rest(path, prefix) == SubSeq(path, Len(prefix) + 1, Len(path))

\* a route matches what is left of the path after the mount's prefix
Match(pattern, rest) ==
    /\ Len(pattern) = Len(rest)
    /\ \A i \in 1..Len(pattern) : pattern[i] \in ParamSegments \/ pattern[i] = rest[i]

\* a router mounted at prefix has a route for the request
Handles(mount, method, path) ==
    /\ HasPrefix(path, mount.prefix)
    /\ \E r \in RouterRoutes(mount.router) :
          r.method = method /\ Match(r.path, Rest(path, mount.prefix))

\* what answers a request: app.get('/health'), app.get('/api'), the first mounted
\* router with a route for it, or else the last app.use
Dispatch(method, path) ==
    IF method = "GET" /\ path = <<"health">> THEN "health"
    ELSE IF method = "GET" /\ path = <<"api">> THEN "api"
    ELSE IF \E m \in Mounts : Handles(m, method, path)
    THEN (CHOOSE m \in Mounts : Handles(m, method, path)).router
    ELSE "not_found"

\* a request the app itself answers
AppAnswer(s, target, res) ==
    \E method \in Methods, path \in Paths :
        /\ Dispatch(method, path) = target
        /\ Respond(s, target, Null, 0, [method |-> method, path |-> path], Null, res)

\* app.get('/health')
GetHealth(s) ==
    /\ req[s].pc = "idle"
    /\ AppAnswer(s, "health",
                 [status |-> 200, message |-> "Harvest Hub API is running"])
    /\ UNCHANGED <<users, gardens, crops, seq, now, held, faults>>

\* app.get('/api')
GetApi(s) ==
    /\ req[s].pc = "idle"
    /\ AppAnswer(s, "api", [status |-> 200, message |-> "Harvest Hub API"])
    /\ UNCHANGED <<users, gardens, crops, seq, now, held, faults>>

\* the 404 handler
NotFound(s) ==
    /\ req[s].pc = "idle"
    /\ AppAnswer(s, "not_found", Err(404, "Route not found"))
    /\ UNCHANGED <<users, gardens, crops, seq, now, held, faults>>

(***************************************************************************)
(* The auth router from an empty store.                                    *)
(***************************************************************************)
InitAuth ==
    /\ users = {}
    /\ gardens = {}
    /\ crops = {}
    /\ seq = [users |-> 0, gardens |-> 0, crops |-> 0]
    /\ now = 0
    /\ held = [s \in Slots |-> NoToken]
    /\ req = [s \in Slots |-> Idle]
    /\ last = NoResponse
    /\ faults = 0

(***************************************************************************)
(* Registrations under way at the same time, from an empty store.          *)
(***************************************************************************)
NextRegister ==
    \/ \E s \in Slots : PostRegister(s)
    \/ \E s \in Slots : PostRegisterCheck(s)
    \/ \E s \in Slots : PostRegisterInsert(s)

SpecRegister == InitAuth /\ [][NextRegister]_vars

(***************************************************************************)
(* One client of the auth router while the days pass.                      *)
(***************************************************************************)
NextAuth ==
    \/ PostRegister(1)
    \/ PostRegisterCheck(1)
    \/ PostRegisterInsert(1)
    \/ PostLogin(1)
    \/ PostLoginLookup(1)
    \/ GetMe(1)
    \/ GetMeLookup(1)
    \/ PostLogout(1)
    \/ DeleteAccount(1)
    \/ DeleteAccountFetch(1)
    \/ DeleteAccountDelete(1)
    \/ Tick

SpecAuth == InitAuth /\ [][NextAuth]_vars

(***************************************************************************)
(* The gardens and crops routers: two registered users, each client        *)
(* logged in as one of them, requests interleaving.                        *)
(***************************************************************************)
\* the row a registration with this body left at day 0
Registered(id, body) == NewUser(id, body, Hash(body.password, 1), 0)

TwoUsers ==
    {Registered(1, [email |-> "a@x", password |-> "pw1", name |-> "Ann",
                    phone |-> Undef]),
     Registered(2, [email |-> "b@x", password |-> "pw2", name |-> "Bob",
                    phone |-> "555"])}

\* the tokens the two users got when they logged in
Tokens == {Sign(u, 0) : u \in TwoUsers}

InitCrud ==
    /\ users = TwoUsers
    /\ gardens = {}
    /\ crops = {}
    /\ seq = [users |-> 2, gardens |-> 0, crops |-> 0]
    /\ now = 0
    /\ held \in [Slots -> Tokens]
    /\ \A s \in Slots : held[s].id = 2 - (s % 2)
    /\ req = [s \in Slots |-> Idle]
    /\ last = NoResponse
    /\ faults = 0

\* no request is being handled
Quiet == \A s \in Slots : req[s].pc = "idle"

\* one request at a time: a request starts when no other is being handled
NextCrud ==
    \/ \E s \in Slots : Quiet /\ Unauthenticated(s)
    \/ \E s \in Slots : Quiet /\ GetGarden(s)
    \/ \E s \in Slots : GetGardenQuery(s)
    \/ \E s \in Slots : Quiet /\ PostGarden(s)
    \/ \E s \in Slots : PostGardenInsert(s)
    \/ \E s \in Slots : Quiet /\ PutGarden(s)
    \/ \E s \in Slots : PutGardenCheck(s)
    \/ \E s \in Slots : PutGardenUpdate(s)
    \/ \E s \in Slots : Quiet /\ DeleteGarden(s)
    \/ \E s \in Slots : DeleteGardenCheck(s)
    \/ \E s \in Slots : DeleteGardenDelete(s)
    \/ \E s \in Slots : Quiet /\ GetCrop(s)
    \/ \E s \in Slots : GetCropQuery(s)
    \/ \E s \in Slots : Quiet /\ PostCrop(s)
    \/ \E s \in Slots : PostCropCheck(s)
    \/ \E s \in Slots : PostCropInsert(s)
    \/ \E s \in Slots : Quiet /\ PutCrop(s)
    \/ \E s \in Slots : PutCropCheck(s)
    \/ \E s \in Slots : PutCropUpdate(s)
    \/ \E s \in Slots : Quiet /\ DeleteCrop(s)
    \/ \E s \in Slots : DeleteCropCheck(s)
    \/ \E s \in Slots : DeleteCropDelete(s)

SpecCrud == InitCrud /\ [][NextCrud]_vars

(***************************************************************************)
(* The gardens router alone, one request at a time.                        *)
(***************************************************************************)
NextGardens ==
    \/ \E s \in Slots : Quiet /\ GetGarden(s)
    \/ \E s \in Slots : GetGardenQuery(s)
    \/ \E s \in Slots : Quiet /\ PostGarden(s)
    \/ \E s \in Slots : PostGardenInsert(s)
    \/ \E s \in Slots : Quiet /\ PutGarden(s)
    \/ \E s \in Slots : PutGardenCheck(s)
    \/ \E s \in Slots : PutGardenUpdate(s)
    \/ \E s \in Slots : Quiet /\ DeleteGarden(s)
    \/ \E s \in Slots : DeleteGardenCheck(s)
    \/ \E s \in Slots : DeleteGardenDelete(s)

SpecGardens == InitCrud /\ [][NextGardens]_vars

(***************************************************************************)
(* The reads of the gardens and crops routers, next to the requests that   *)
(* create gardens and crops and delete gardens, from an empty store.       *)
(***************************************************************************)
NextLists ==
    \/ \E s \in Slots : GetGardens(s)
    \/ \E s \in Slots : GetGardensQuery(s)
    \/ \E s \in Slots : GetGarden(s)
    \/ \E s \in Slots : GetGardenQuery(s)
    \/ \E s \in Slots : GetCrops(s)
    \/ \E s \in Slots : GetCropsQuery(s)
    \/ \E s \in Slots : GetGardenCrops(s)
    \/ \E s \in Slots : GetGardenCropsCheck(s)
    \/ \E s \in Slots : GetGardenCropsQuery(s)
    \/ \E s \in Slots : GetCrop(s)
    \/ \E s \in Slots : GetCropQuery(s)
    \/ \E s \in Slots : PostGarden(s)
    \/ \E s \in Slots : PostGardenInsert(s)
    \/ \E s \in Slots : PostCrop(s)
    \/ \E s \in Slots : PostCropCheck(s)
    \/ \E s \in Slots : PostCropInsert(s)
    \/ \E s \in Slots : DeleteGarden(s)
    \/ \E s \in Slots : DeleteGardenCheck(s)
    \/ \E s \in Slots : DeleteGardenDelete(s)

SpecLists == InitCrud /\ [][NextLists]_vars

(***************************************************************************)
(* The crops router alone, one request at a time, each user with a garden. *)
(***************************************************************************)
InitCrops ==
    /\ users = TwoUsers
    /\ gardens = {NewGarden(u, u, [NoGardenBody EXCEPT !.name = "Plot"], 0) : u \in 1..2}
    /\ crops = {}
    /\ seq = [users |-> 2, gardens |-> 2, crops |-> 0]
    /\ now = 0
    /\ held \in [Slots -> Tokens]
    /\ \A s \in Slots : held[s].id = 2 - (s % 2)
    /\ req = [s \in Slots |-> Idle]
    /\ last = NoResponse
    /\ faults = 0

NextCrops ==
    \/ \E s \in Slots : Quiet /\ GetCrop(s)
    \/ \E s \in Slots : GetCropQuery(s)
    \/ \E s \in Slots : Quiet /\ PostCrop(s)
    \/ \E s \in Slots : PostCropCheck(s)
    \/ \E s \in Slots : PostCropInsert(s)
    \/ \E s \in Slots : Quiet /\ PutCrop(s)
    \/ \E s \in Slots : PutCropCheck(s)
    \/ \E s \in Slots : PutCropUpdate(s)
    \/ \E s \in Slots : Quiet /\ DeleteCrop(s)
    \/ \E s \in Slots : DeleteCropCheck(s)
    \/ \E s \in Slots : DeleteCropDelete(s)

SpecCrops == InitCrops /\ [][NextCrops]_vars

(***************************************************************************)
(* The same two clients with their writing requests interleaved.           *)
(***************************************************************************)
\* each user has created a garden and a crop in it
GardenOf(u) == NewGarden(u, u, [NoGardenBody EXCEPT !.name = "Plot"], 0)

CropOf(u) == NewCrop(u, u, u, [NoCropBody EXCEPT !.name = "Kale", !.progress = 30], 0)

\* the first client is user 1; the others are either user
InitRace ==
    /\ users = TwoUsers
    /\ gardens = {GardenOf(1), GardenOf(2)}
    /\ crops = {CropOf(1), CropOf(2)}
    /\ seq = [users |-> 2, gardens |-> 2, crops |-> 2]
    /\ now = 0
    /\ held \in [Slots -> Tokens]
    /\ held[1].id = 1
    /\ req = [s \in Slots |-> Idle]
    /\ last = NoResponse
    /\ faults = 0

NextRace ==
    \/ \E s \in Slots : PutGarden(s)
    \/ \E s \in Slots : PutGardenCheck(s)
    \/ \E s \in Slots : PutGardenUpdate(s)
    \/ \E s \in Slots : DeleteGarden(s)
    \/ \E s \in Slots : DeleteGardenCheck(s)
    \/ \E s \in Slots : DeleteGardenDelete(s)
    \/ \E s \in Slots : PutCrop(s)
    \/ \E s \in Slots : PutCropCheck(s)
    \/ \E s \in Slots : PutCropUpdate(s)
    \/ \E s \in Slots : DeleteCrop(s)
    \/ \E s \in Slots : DeleteCropCheck(s)
    \/ \E s \in Slots : DeleteCropDelete(s)

SpecRace == InitRace /\ [][NextRace]_vars

(***************************************************************************)
(* One client of the profile router and of the routes that issue tokens:   *)
(* user 1 is registered and owns a garden and a crop.                      *)
(***************************************************************************)
InitProfile ==
    /\ users = {u \in TwoUsers : u.id = 1}
    /\ gardens = {GardenOf(1)}
    /\ crops = {CropOf(1)}
    /\ seq = [users |-> 1, gardens |-> 1, crops |-> 1]
    /\ now = 0
    /\ held = [s \in Slots |-> Sign(Registered(1, [email |-> "a@x", password |-> "pw1",
                                                   name |-> "Ann", phone |-> Undef]), 0)]
    /\ req = [s \in Slots |-> Idle]
    /\ last = NoResponse
    /\ faults = MaxFaults

NextProfile ==
    \/ PostRegister(1)
    \/ PostRegisterCheck(1)
    \/ PostRegisterInsert(1)
    \/ PostLogin(1)
    \/ PostLoginLookup(1)
    \/ GetMe(1)
    \/ GetMeLookup(1)
    \/ Unauthenticated(1)
    \/ GetProfile(1)
    \/ GetProfileUser(1)
    \/ GetProfileCrops(1)
    \/ GetProfileHistory(1)
    \/ GetOwnProfile(1)
    \/ GetOwnProfileUser(1)
    \/ GetOwnProfileGardens(1)
    \/ GetOwnProfileCrops(1)
    \/ GetOwnProfileHistory(1)
    \/ PutProfile(1)
    \/ PutProfileUpdate(1)
    \/ PostUploadImage(1)
    \/ PostUploadImageUpdate(1)
    \/ DeleteImage(1)
    \/ DeleteImageFetch(1)
    \/ DeleteImageDestroy(1)
    \/ DeleteImageUpdate(1)
    \/ DeleteAccount(1)
    \/ DeleteAccountFetch(1)
    \/ DeleteAccountDestroy(1)
    \/ DeleteAccountDelete(1)

SpecProfile == InitProfile /\ [][NextProfile]_vars

(***************************************************************************)
(* GET /:userId of the profile router over stores that differ in the crops *)
(* they hold: crops of either user, harvested or not, shared or not, one   *)
(* with progress null.                                                     *)
(***************************************************************************)
StatCrop(id, userId, status, progress, is_shared) ==
    [NewCrop(id, userId, userId, [NoCropBody EXCEPT !.name = "Kale"], 0)
        EXCEPT !.status = status, !.progress = progress, !.is_shared = is_shared]

StatCrops ==
    {StatCrop(1, 1, "seedling", 30, "false"), StatCrop(2, 1, "harvest", 45, "true"),
     StatCrop(3, 1, "growing", NullNum, "true"), StatCrop(4, 2, "harvest", 100, "true")}

InitStats ==
    /\ users = TwoUsers
    /\ gardens = {GardenOf(1), GardenOf(2)}
    /\ crops \in SUBSET StatCrops
    /\ seq = [users |-> 2, gardens |-> 2, crops |-> Cardinality(StatCrops)]
    /\ now = 0
    /\ held \in [Slots -> Tokens]
    /\ \A s \in Slots : held[s].id = 2 - (s % 2)
    /\ req = [s \in Slots |-> Idle]
    /\ last = NoResponse
    /\ faults = MaxFaults

NextStats ==
    \/ GetProfile(1)
    \/ GetProfileUser(1)
    \/ GetProfileCrops(1)
    \/ GetProfileHistory(1)

SpecStats == InitStats /\ [][NextStats]_vars

(***************************************************************************)
(* Account deletion while the same user's other requests are under way.    *)
(***************************************************************************)
NextAccount ==
    \/ \E s \in Slots : DeleteAccount(s)
    \/ \E s \in Slots : DeleteAccountFetch(s)
    \/ \E s \in Slots : DeleteAccountDestroy(s)
    \/ \E s \in Slots : DeleteAccountDelete(s)
    \/ \E s \in Slots : PostUploadImage(s)
    \/ \E s \in Slots : PostUploadImageUpdate(s)
    \/ \E s \in Slots : PostGarden(s)
    \/ \E s \in Slots : PostGardenInsert(s)
    \/ \E s \in Slots : PostCrop(s)
    \/ \E s \in Slots : PostCropCheck(s)
    \/ \E s \in Slots : PostCropInsert(s)

SpecAccount == InitProfile /\ [][NextAccount]_vars

(***************************************************************************)
(* One client of the application: the requests the app answers itself and  *)
(* requests it hands to the routers it mounts.                             *)
(***************************************************************************)
NextApp ==
    \/ GetHealth(1)
    \/ GetApi(1)
    \/ NotFound(1)
    \/ Dispatch("POST", <<"api", "auth", "login">>) = "auth" /\ PostLogin(1)
    \/ PostLoginLookup(1)
    \/ Dispatch("POST", <<"api", "auth", "logout">>) = "auth" /\ PostLogout(1)
    \/ Dispatch("POST", <<"api", "gardens">>) = "gardens" /\ PostGarden(1)
    \/ PostGardenInsert(1)
    \/ Dispatch("GET", <<"api", "gardens", "1">>) = "gardens" /\ GetGarden(1)
    \/ GetGardenQuery(1)
    \/ Dispatch("GET", <<"api", "crops", "1">>) = "crops" /\ GetCrop(1)
    \/ GetCropQuery(1)

SpecApp == InitCrud /\ [][NextApp]_vars

(***************************************************************************)
(* Properties.  last is the response the step into a state sent, with the  *)
(* slot, route, requester, :id and body of the request it answers.         *)
(***************************************************************************)
\* the route last answers
Answered(ops) == last.op \in ops

\* the garden or crop the answered request names in :id is another user's row
ForeignRow ==
    \/ /\ Answered({"get_garden", "put_garden", "delete_garden"})
       /\ \E g \in gardens : g.id = last.id /\ g.user_id # last.user.id
    \/ /\ Answered({"get_crop", "put_crop", "delete_crop"})
       /\ \E c \in crops : c.id = last.id /\ c.user_id # last.user.id

\* C1: a GET, PUT or DELETE /:id by a user who does not own the garden or crop it
\* names answers 404 and leaves every garden and crop row as it was
C1_ForeignRowIs404 ==
    [][ForeignRow' => /\ last'.res.status = 404
                      /\ gardens' = gardens
                      /\ crops' = crops]_vars

\* C2: no response body, and no user or profile object in one, has a password_hash
\* field, whatever the request and whether the store answers or fails
C2_NoPasswordHash ==
    /\ "password_hash" \notin DOMAIN last.res
    /\ \A k \in DOMAIN last.res \cap {"user", "profile"} :
          "password_hash" \notin DOMAIN last.res[k]

\* a login answered with the user whose stored row holds a password hash
C2_LoginShowsUser ==
    /\ Answered({"login"})
    /\ last.res.status = 200
    /\ \E u \in users : u.id = last.res.user.id /\ "password_hash" \in DOMAIN u

\* C3: a POST /register whose email is the email of a stored user row answers 400,
\* and the user rows are the same before and after
C3_ExistingEmailIs400 ==
    [][(last'.op = "register" /\ EmailTaken(last'.body.email))
          => (last'.res.status = 400 /\ users' = users)]_vars

\* a complete registration body was turned away because its email is stored
C3_Refused ==
    /\ Answered({"register"})
    /\ last.res = Err(400, "User already exists")
    /\ \E u \in users : u.email = last.body.email

\* C4: a POST /login with an email and a password answers the same 401
\* 'Invalid credentials' when no user row has the email and when a row has it but
\* the password does not match
C4_SameInvalidCredentials ==
    (/\ Answered({"login"})
     /\ ~Falsy(last.body.email)
     /\ ~Falsy(last.body.password)
     /\ \/ ~\E u \in users : u.email = last.body.email
        \/ \E u \in users : /\ u.email = last.body.email
                            /\ ~Compare(last.body.password, u.password_hash))
        => last.res = Err(401, "Invalid credentials")

\* a known email was refused for its password
C4_WrongPassword ==
    /\ Answered({"login"})
    /\ last.res.status = 401
    /\ \E u \in users : u.email = last.body.email

\* the header of the GET /me the step starts in slot s
MeHeader(s) == IF req'[s].op = "me" THEN req'[s].body ELSE last'.body

\* C5: the token a login or registration returns carries the id, email and name
\* of the stored user row; GET /me takes it on while fewer than ExpiresInDays days
\* have passed since it was issued, and answers 401 from then on
C5_TokenLifetime ==
    [][/\ (last'.op \in {"login", "register"} /\ "token" \in DOMAIN last'.res)
            => \E u \in users' :
                  /\ u.email = last'.body.email
                  /\ Decoded(last'.res.token)
                        = [id |-> u.id, email |-> u.email, name |-> u.name]
                  /\ last'.res.token.iat = now
       /\ \A s \in Slots :
            (/\ req[s].pc = "idle"
             /\ req'[s].op = "me" \/ (last'.op = "me" /\ last'.slot = s)
             /\ MeHeader(s).kind = "bearer"
             /\ MeHeader(s).token.sig = "good")
               => IF now < MeHeader(s).token.iat + ExpiresInDays
                  THEN /\ req'[s].pc = "me_lookup"
                       /\ req'[s].loc.decoded = Decoded(MeHeader(s).token)
                  ELSE /\ last'.op = "me"
                       /\ last'.res.status = 401
       /\ (last'.op = "me" /\ last'.res.status = 200)
            => last'.res.user.id = last'.body.token.id]_vars

\* /me turned a token away on the very day it expired
C5_ExpiredOnTheDay ==
    /\ Answered({"me"})
    /\ last.body.kind = "bearer"
    /\ last.body.token.sig = "good"
    /\ last.res.status = 401
    /\ now = last.body.token.iat + ExpiresInDays

\* the fields a body supplies
SuppliedFields(body) ==
    {f \in DOMAIN body : body[f] # (IF f \in NumCols THEN UndefNum ELSE Undef)}

\* C6: a PUT /:id on a crop answered 200 changes, in the crop it names, only the
\* fields its body supplies and updated_at, and changes no other crop row
C6_PartialUpdateFrame ==
    [][(last'.op = "put_crop" /\ last'.res.status = 200)
          => /\ Cardinality(crops') = Cardinality(crops)
             /\ \A c \in crops :
                  IF c.id # last'.id THEN c \in crops'
                  ELSE \E d \in crops' :
                          /\ d.id = c.id
                          /\ \A f \in DOMAIN c \ ((SuppliedFields(last'.body)
                                                      \ {"garden_id", "user_id"})
                                                  \cup {"updated_at"}) :
                                d[f] = c[f]]_vars

\* a body with progress alone updated a crop that had notes, next to another crop
C6_OnlyProgress ==
    /\ Answered({"put_crop"})
    /\ last.res.status = 200
    /\ SuppliedFields(last.body) = {"progress"}
    /\ last.res.crop.progress = 50
    /\ last.res.crop.notes = "water"
    /\ Cardinality(crops) = 2

\* the users, gardens and crops rows of user id
RowsOfUser(id) ==
    {u \in users : u.id = id} \cup {g \in gardens : g.user_id = id}
        \cup {c \in crops : c.user_id = id}

\* C7: when DELETE / of a user answers 200 the store holds no users, gardens or
\* crops row of that user, and no row of a deleted user is stored afterwards
C7_AccountDeletionLeavesNoRows ==
    /\ (Answered({"delete_account"}) /\ last.res.status = 200)
          => RowsOfUser(last.user.id) = {}
    /\ \A id \in 1..seq.users : ~UserExists(id) => RowsOfUser(id) = {}

\* an account that had a garden and a crop was deleted
C7_Deleted ==
    /\ Answered({"delete_account"})
    /\ last.res.status = 200
    /\ seq.gardens > 0
    /\ seq.crops > 0
    /\ users = {}

\* the token GET /me was sent
MeToken == last.body.token

\* the error of the body last answers with
MeError == IF "error" \in DOMAIN last.res THEN last.res.error ELSE "none"

C9_CropsNameOwnedGardens ==
    /\ \A c \in crops :
          \E g \in gardens : g.id = c.garden_id /\ g.user_id = c.user_id
    /\ (/\ Answered({"post_crop"})
        /\ ~Falsy(last.body.name)
        /\ last.id # 0
        /\ ~\E g \in gardens : g.id = last.id /\ g.user_id = last.user.id)
          => last.res.status = 404

\* the update or delete the step completes in slot s is sent by the user in
\* user_id of row, of a table whose writes are awaited at the places pcs
WrittenByOwner(row, pcs) ==
    \E s \in Slots :
        /\ req[s].pc \in pcs
        /\ req'[s].pc = "idle"
        /\ req[s].id = row.id
        /\ req[s].user.id = row.user_id

\* C10: whichever way requests interleave, a garden or crop row is changed or
\* removed only by the update or delete of a request of the user in its user_id
C10_WritesByOwner ==
    [][/\ \A g \in gardens \ gardens' :
             WrittenByOwner(g, {"put_garden_update", "delete_garden_delete"})
       /\ \A c \in crops \ crops' :
             WrittenByOwner(c, {"put_crop_update", "delete_crop_delete"})]_vars

\* a delete removed a crop between the ownership query and the update of a PUT
C10_DeleteInTheGap ==
    /\ Answered({"delete_crop"})
    /\ last.res.status = 200
    /\ \E s \in Slots : req[s].pc = "put_crop_update" /\ req[s].id = last.id

\* the ids of the rows of a table
IdsOf(table) == {r.id : r \in table}

\* the insert the step completes in slot s is a request of user id
InsertedBy(id, pc) ==
    \E s \in Slots : req[s].pc = pc /\ req'[s].pc = "idle" /\ req[s].user.id = id

\* C11: a garden or crop row has one user_id, the id of the authenticated user whose
\* POST created it and not a value of the request body, and no request changes the
\* user_id of a row or the garden_id of a crop
C11_OwnerSetOnceFromToken ==
    [][/\ \A g \in gardens' :
             IF g.id \in IdsOf(gardens)
             THEN \A h \in gardens : h.id = g.id => h.user_id = g.user_id
             ELSE g.user_id \in 1..seq.users
                     /\ InsertedBy(g.user_id, "post_garden_insert")
       /\ \A c \in crops' :
             IF c.id \in IdsOf(crops)
             THEN \A d \in crops :
                     d.id = c.id => d.user_id = c.user_id /\ d.garden_id = c.garden_id
             ELSE c.user_id \in 1..seq.users
                     /\ InsertedBy(c.user_id, "post_crop_insert")]_vars

\* a PUT whose body names another user and garden left the crop with its owner
C11_BodyNamesAnotherUser ==
    /\ Answered({"put_crop"})
    /\ last.res.status = 200
    /\ last.body.user_id = 2
    /\ last.res.crop.user_id = 1
    /\ last.res.crop.garden_id # last.body.garden_id
    /\ \E g \in gardens : g.user_id = 1 /\ last.body.user_id # g.user_id

\* the request is GET /health, GET /api, or a route of the auth, gardens, crops or
\* profile router under its prefix
Claimed(method, path) ==
    \/ method = "GET" /\ path \in {<<"health">>, <<"api">>}
    \/ \E m \in Mounts \cup {[prefix |-> <<"api", "profile">>, router |-> "profile"]} :
          Handles(m, method, path)

\* C12: a request for /health, /api or a route of the auth, gardens, crops or
\* profile router is answered by that handler or router; the 404 fallback answers
\* only the requests that match none of them
C12_FallbackOnlyForUnknown ==
    Answered({"not_found"}) => ~Claimed(last.body.method, last.body.path)

\* the fields PUT /:id of a garden may set
GardenFields == {"name", "location", "type", "size", "description"}

\* the stored garden the answered PUT names, before and after, agree with merge
GardenMerged(Merge(_, _, _)) ==
    (last'.op = "put_garden" /\ last'.res.status = 200)
       => \A g \in gardens :
             g.id = last'.id
                => \E h \in gardens' :
                      /\ h.id = g.id
                      /\ \A f \in GardenFields : h[f] = Merge(f, last'.body[f], g[f])

\* the value a field takes when every value other than undefined counts as supplied
AnySupplied(f, given, stored) == IF given # Undef THEN given ELSE stored

\* the value a field takes when name, type and size need a truthy value
TruthySupplied(f, given, stored) ==
    IF f \in {"name", "type", "size"}
    THEN (IF Falsy(given) THEN stored ELSE given)
    ELSE (IF given # Undef THEN given ELSE stored)

\* C13 as stated: a PUT /:id on a garden answered 200 leaves each of name, location,
\* type, size and description at the value the body supplies, or at the value
\* stored before when the body supplies none
C13_SuppliedOrStored == [][GardenMerged(AnySupplied)]_vars

\* C13 amended: as above, where for name, type and size only a truthy value counts
\* as supplied: an empty string or null keeps the stored value
C13_TruthyOrStored == [][GardenMerged(TruthySupplied)]_vars

\* a PUT with an empty name and a type kept the name and wrote the type
C13_EmptyNameKept ==
    /\ Answered({"put_garden"})
    /\ last.res.status = 200
    /\ last.body.name = ""
    /\ last.res.garden.name = "Plot"
    /\ last.res.garden.type = "indoor"
    /\ last.res.garden.description = "beds"

\* the answered request awaited the remote destroy, which answered or threw
DestroyAwaited(l) == "destroyed" \in DOMAIN l.loc

\* C14: when DELETE /image or DELETE / has awaited the remote destroy, whether it
\* answered or threw, and the store call that follows succeeds, the request is
\* answered 200 and the users row has profile_image_url null (DELETE /image) or is
\* gone (DELETE /)
C14_DestroyTolerated ==
    [][(/\ last'.op \in {"delete_image", "delete_account"}
        /\ DestroyAwaited(last')
        /\ faults' = faults)
          => /\ last'.res.status = 200
             /\ last'.op = "delete_image"
                   => /\ RowsById(users', last'.user.id) # {}
                      /\ \A u \in RowsById(users', last'.user.id) :
                            u.profile_image_url = JsNull
             /\ last'.op = "delete_account"
                   => RowsById(users', last'.user.id) = {}]_vars

\* DELETE /image answered 200 with the URL removed after the remote destroy threw
C14_DestroyThrew ==
    /\ Answered({"delete_image"})
    /\ DestroyAwaited(last)
    /\ ~last.loc.destroyed
    /\ last.res.status = 200
    /\ \E u \in users : u.id = last.user.id /\ u.profile_image_url = JsNull

\* the 500 bodies the handlers and the app's error handler send
GenericErrors ==
    {"Internal server error", "Error creating user", "Failed to fetch garden",
     "Failed to fetch gardens", "Failed to create garden", "Failed to update garden",
     "Failed to delete garden", "Failed to fetch crop", "Failed to fetch crops",
     "Failed to fetch garden crops", "Failed to fetch impact stats",
     "Failed to upload image", "Failed to create crop", "Failed to update crop", "Failed to delete crop",
     "Failed to fetch profile", "Failed to update profile",
     "Failed to update profile image", "Failed to remove profile image",
     "Failed to remove image", "Failed to delete account", "Something went wrong!"}

\* C15: a step on which a store call fails answers the request, with status 500 and
\* a generic message, and writes nothing
C15_StoreFailureIs500 ==
    [][faults' < faults
          => /\ last'.op # "none"
             /\ last'.res.status = 500
             /\ "error" \in DOMAIN last'.res
             /\ last'.res.error \in GenericErrors
             /\ UNCHANGED <<users, gardens, crops>>]_vars

\* the crop rows of a user, their progress summed by id with null counted as 0
ProgressSum(userId) ==
    LET S[n \in 0..seq.crops] ==
            IF n = 0 THEN 0
            ELSE S[n - 1]
                 + (IF \E c \in crops : c.id = n /\ c.user_id = userId /\ c.progress > 0
                    THEN (CHOOSE c \in crops : c.id = n).progress
                    ELSE 0)
    IN  S[seq.crops]

\* the statistics the claim describes, over the crop rows with user_id = userId
ExpectedStats(userId) ==
    LET rows == {c \in crops : c.user_id = userId}
        count == Cardinality(rows)
    IN  [totalCrops |-> count,
         activeCrops |-> Cardinality({c \in rows : c.status # "harvest"}),
         sharedCrops |-> Cardinality({c \in rows : c.is_shared = "true"}),
         avgProgress |->
            IF count = 0 THEN 0
            ELSE CHOOSE n \in 0..100 :
                    /\ 2 * n * count <= 2 * ProgressSum(userId) + count
                    /\ 2 * ProgressSum(userId) + count < 2 * (n + 1) * count]

NoStats == [totalCrops |-> 0, activeCrops |-> 0, sharedCrops |-> 0, avgProgress |-> 0]

\* C16: the statistics GET /:userId holds once its crops query has answered are those
\* of the crop rows with user_id = userId (count, count not in status harvest, count
\* shared, rounded mean progress, 0 without crops), or all 0 when the query failed,
\* and the 200 response carries them
C16_ProfileStats ==
    [][/\ \A s \in Slots :
            (req[s].pc = "get_profile_crops" /\ req'[s].pc = "get_profile_history")
               => req'[s].loc.stats = IF faults' < faults THEN NoStats
                                      ELSE ExpectedStats(req[s].id)
       /\ (last'.op = "get_profile" /\ last'.res.status = 200)
             => last'.res.profile.stats = req[last'.slot].loc.stats]_vars

\* a profile with two crops, one harvested and shared, whose mean progress 37.5 is
\* reported as 38
C16_RoundedUp ==
    /\ Answered({"get_profile"})
    /\ last.res.status = 200
    /\ last.res.profile.stats =
          [totalCrops |-> 2, activeCrops |-> 1, sharedCrops |-> 1, avgProgress |-> 38]
    /\ Cardinality({c \in crops : c.user_id = last.id}) = 2

\* C17: however POST /register requests with the same email interleave, the store
\* never holds two users rows with one email, and a 201 is sent only by the request
\* whose insert created the one row of that email
C17_OneRowOne201 ==
    /\ [](\A e \in Emails : Cardinality(UsersByEmail(e)) <= 1)
    /\ [][(last'.op = "register" /\ last'.res.status = 201)
             => /\ UsersByEmail(last'.body.email) = {}
                /\ Cardinality({u \in users' : u.email = last'.body.email}) = 1]_vars

\* a registration whose existence query found no row is refused at the insert,
\* another request having created the row in between
C17_LostTheRace ==
    /\ Answered({"register"})
    /\ last.res.status = 500
    /\ last.loc = [existingUser |-> Null]
    /\ \E u \in users : u.email = last.body.email
    /\ faults = 0

\* the answered PUT /:id read the crop c names before another request wrote it
Overtaken(l, c) ==
    /\ l.op = "put_crop"
    /\ l.res.status = 200
    /\ l.id = c.id
    /\ l.user.id = c.user_id
    /\ "existingCrop" \in DOMAIN l.loc
    /\ l.loc.existingCrop # c

\* C18: when a PUT /:id by the owner is answered 200 on a crop that another PUT wrote
\* while this one was under way, the stored crop keeps every value the other wrote
\* to a field this request does not supply
C18_BothValuesStored ==
    [][\A c \in crops :
          Overtaken(last', c)
             => \E d \in crops' :
                   /\ d.id = c.id
                   /\ \A f \in DOMAIN c \ {"updated_at"} :
                         (c[f] # last'.loc.existingCrop[f]
                             /\ f \notin SuppliedFields(last'.body))
                            => d[f] = c[f]]_vars

\* the garden and crop rows a 200 response carries
RowsReturned(l) ==
    IF l.res = Null \/ l.res.status # 200 THEN {}
    ELSE IF l.op = "get_gardens" THEN {l.res.gardens[i] : i \in DOMAIN l.res.gardens}
    ELSE IF l.op \in {"get_crops", "get_garden_crops"}
    THEN {l.res.crops[i] : i \in DOMAIN l.res.crops}
    ELSE IF l.op = "get_garden" THEN {l.res.garden}
    ELSE IF l.op = "get_crop" THEN {l.res.crop}
    ELSE {}

\* C19: every row a GET of the gardens or crops router returns has the requester's
\* user_id; GET /garden/:gardenId answers 404 when its garden query finds no garden
\* of the requester with that id, and a 200 lists exactly the crops with that
\* garden_id
C19_OwnRowsOnly ==
    /\ [](\A r \in RowsReturned(last) : r.user_id = last.user.id)
    /\ [][\A s \in Slots :
             /\ (/\ req[s].pc = "get_garden_crops_check"
                 /\ req'[s] # req[s]
                 /\ ~\E g \in gardens : g.id = req[s].id /\ g.user_id = req[s].user.id)
                   => (last'.slot = s /\ last'.res.status = 404)
             /\ (/\ req[s].pc = "get_garden_crops_query"
                 /\ last'.slot = s
                 /\ last'.res.status = 200)
                   => RowsReturned(last') = {c \in crops : c.garden_id = req[s].id}]_vars

\* GET /garden/:gardenId listed a crop of the requester while the store held a crop
\* of the other user
C19_GardenCropsListed ==
    /\ Answered({"get_garden_crops"})
    /\ last.res.status = 200
    /\ last.res.count = 1
    /\ \E c \in crops : c.user_id # last.user.id

====
